---- MODULE Spec2Model ----
(***************************************************************************)
(* The stage hierarchy of pyflink/ml/api.py: Stage, AlgoOperator,          *)
(* Transformer, Model and Estimator, the abstract-method check Python's    *)
(* ABC machinery applies when a subclass is instantiated, method lookup    *)
(* along the inheritance chain, and the bodies the file gives to           *)
(* set_model_data, get_model_data, fit, save, load and transform.          *)
(*                                                                         *)
(* A user class is a record [base, defs]: the framework class it extends   *)
(* and the names of the methods it defines itself.  The heap `objs` holds  *)
(* the live stage instance: the stage most recently constructed or loaded  *)
(* (a later construction rebinds the reference and the earlier instance    *)
(* is gone).  `store` is what has been saved under each path, and `result` *)
(* the outcome of the last call: the operation, its receiver, the number   *)
(* of input tables, and the value returned or the exception raised.        *)
(* result.retry records that the call was refused as unsupported right     *)
(* after a refused call on the same stage.                                 *)
(***************************************************************************)
EXTENDS Integers, Sequences, FiniteSets, TLC

VARIABLES objs, store, result

vars == <<objs, store, result>>

\* ------------------------------------------------------------ bounds
MaxLen == 2
MaxParam == 1

\* ------------------------------------------------------------ values
Tables == {"t1"}
Paths == {"p1"}
TableLists == UNION {[1..n -> Tables] : n \in 0..MaxLen}
Params == 0..MaxParam

NotSupported == "This operation is not supported."

NoClass == [base |-> "ABC", defs |-> {}]

NoFile == [cls |-> NoClass, params |-> 0, saved |-> FALSE]

\* ------------------------------------------------------------ the class hierarchy
FrameworkClasses == {"Stage", "AlgoOperator", "Transformer", "Model", "Estimator"}

\* Model declared directly on Stage, skipping Transformer and AlgoOperator
Base_model_on_stage(c) ==
    CASE c = "AlgoOperator" -> "Stage"
      [] c = "Transformer" -> "AlgoOperator"
      [] c = "Model" -> "Stage"
      [] c = "Estimator" -> "Stage"
      [] OTHER -> "ABC"

Base(c) ==
    CASE c = "AlgoOperator" -> "Stage"
      [] c = "Transformer" -> "AlgoOperator"
      [] c = "Model" -> "Transformer"
      [] c = "Estimator" -> "Stage"
      [] OTHER -> "ABC"

RECURSIVE Mro(_)
Mro(c) == IF c \in FrameworkClasses THEN <<c>> \o Mro(Base(c)) ELSE <<>>

Ancestors(c) == {Mro(c)[i] : i \in 1..Len(Mro(c))}

Defines(c) ==
    CASE c = "Stage" -> {"save", "load"}
      [] c = "AlgoOperator" -> {"transform"}
      [] c = "Model" -> {"set_model_data", "get_model_data"}
      [] c = "Estimator" -> {"fit"}
      [] OTHER -> {}

\* transform left without @abstractmethod
Abstract_no_transform(c) ==
    CASE c = "Stage" -> {"save", "load"}
      [] OTHER -> {}

\* fit carrying @abstractmethod as well
Abstract_with_fit(c) ==
    CASE c = "Stage" -> {"save", "load"}
      [] c = "AlgoOperator" -> {"transform"}
      [] c = "Estimator" -> {"fit"}
      [] OTHER -> {}

Abstract(c) ==
    CASE c = "Stage" -> {"save", "load"}
      [] c = "AlgoOperator" -> {"transform"}
      [] OTHER -> {}

Offered(c) == UNION {Defines(a) : a \in Ancestors(c)}

UserClasses == UNION {{[base |-> b, defs |-> d] : d \in SUBSET Offered(b)} : b \in FrameworkClasses}

AbstractMethods(cls) == (UNION {Abstract(a) : a \in Ancestors(cls.base)}) \ cls.defs

ConcreteClasses == {cls \in UserClasses : AbstractMethods(cls) = {}}

IsSubclass(cls, c) == c \in Ancestors(cls.base)

RECURSIVE FirstDefining(_, _)
FirstDefining(chain, name) ==
    IF chain = <<>> THEN "none"
    ELSE IF name \in Defines(Head(chain)) THEN Head(chain)
    ELSE FirstDefining(Tail(chain), name)

\* lookup that prefers the framework class's body over the subclass's
Resolve_base_first(cls, name) ==
    IF FirstDefining(Mro(cls.base), name) # "none"
    THEN FirstDefining(Mro(cls.base), name)
    ELSE IF name \in cls.defs THEN "user" ELSE "none"

Resolve(cls, name) ==
    IF name \in cls.defs THEN "user" ELSE FirstDefining(Mro(cls.base), name)

\* ------------------------------------------------------------ outcomes
Outcome(op, self, cls) ==
    [op |-> op, self |-> self, cls |-> cls, nin |-> 0, path |-> "",
     kind |-> "return", vtype |-> "None", ref |-> "", tables |-> <<>>, msg |-> "",
     retry |-> FALSE]

Raise(r, etype, msg) == [r EXCEPT !.kind = "raise", !.vtype = etype, !.msg = msg]

Refused(r) == r.kind = "raise" /\ r.msg = NotSupported

NoAttribute(r) == Raise(r, "AttributeError", "")

Init ==
    /\ objs = <<>>
    /\ store = [p \in Paths |-> NoFile]
    /\ result = Outcome("start", 0, NoClass)

NewStage(cls, params) == [cls |-> cls, params |-> params, data |-> <<>>]

\* cls(): ABCMeta refuses to instantiate a class with abstract methods left
Construct(cls) ==
    /\ IF AbstractMethods(cls) # {}
       THEN /\ result' = Raise(Outcome("construct", 0, cls), "TypeError", "")
            /\ UNCHANGED objs
       ELSE /\ objs' = <<NewStage(cls, 0)>>
            /\ result' = [Outcome("construct", 1, cls) EXCEPT
                             !.vtype = "Stage", !.ref = "s"]
    /\ UNCHANGED store

\* ------------------------------------------------------------ method bodies of api.py
\* Each body yields the call's outcome and the receiver as the body leaves it.

\* Stage.save, Stage.load, AlgoOperator.transform: abstract, body `pass`
AbstractBody(r, self) == [res |-> r, self |-> self]

\* raises only when called without inputs
Model_set_model_data_empty(r, self, inputs) ==
    IF inputs = <<>>
    THEN [res |-> Raise(r, "Exception", NotSupported), self |-> self]
    ELSE [res |-> [r EXCEPT !.vtype = "Model", !.ref = "s"], self |-> self]

\* keeps the inputs as model data before raising
Model_set_model_data_store(r, self, inputs) ==
    [res |-> Raise(r, "Exception", NotSupported), self |-> [self EXCEPT !.data = inputs]]

\* Model.set_model_data: raise Exception("This operation is not supported.")
Model_set_model_data(r, self, inputs) ==
    [res |-> Raise(r, "Exception", NotSupported), self |-> self]

\* raises on the first call and answers an immediate retry
Model_get_model_data_retry(r, self) ==
    IF Refused(result)
    THEN [res |-> [r EXCEPT !.vtype = "List", !.tables = self.data], self |-> self]
    ELSE [res |-> Raise(r, "Exception", NotSupported), self |-> self]

\* returns an empty list instead of raising
Model_get_model_data_empty(r, self) ==
    [res |-> [r EXCEPT !.vtype = "List", !.tables = <<>>], self |-> self]

\* Model.get_model_data: raise Exception("This operation is not supported.")
Model_get_model_data(r, self) ==
    [res |-> Raise(r, "Exception", NotSupported), self |-> self]

\* Estimator.fit: not abstract, body `pass`, so the call returns None
Estimator_fit(r, self, inputs) == [res |-> r, self |-> self]

\* ------------------------------------------------------------ bodies of concrete subclasses
FixedM == "M"

User_set_model_data(r, self, inputs) ==
    [res |-> [r EXCEPT !.vtype = "Model", !.ref = "s"],
     self |-> [self EXCEPT !.data = inputs]]

User_get_model_data(r, self) ==
    [res |-> [r EXCEPT !.vtype = "List", !.tables = self.data], self |-> self]

User_fit(r, self, inputs) ==
    [res |-> [r EXCEPT !.vtype = "Model", !.ref = FixedM], self |-> self]

User_transform(r, self, inputs, out) ==
    [res |-> [r EXCEPT !.vtype = "List", !.tables = out], self |-> self]

User_save(r, self) ==
    [res |-> r, file |-> [cls |-> self.cls, params |-> self.params, saved |-> TRUE]]

\* load that constructs the stage and restores nothing
User_load_fresh(r, cls, file) ==
    IF ~file.saved \/ file.cls # cls
    THEN [res |-> Raise(r, "IOError", ""), new |-> <<>>]
    ELSE IF AbstractMethods(cls) # {}
    THEN [res |-> Raise(r, "TypeError", ""), new |-> <<>>]
    ELSE [res |-> [r EXCEPT !.vtype = "Stage", !.ref = "s"],
          new |-> <<NewStage(cls, 0)>>]

User_load(r, cls, file) ==
    IF ~file.saved \/ file.cls # cls
    THEN [res |-> Raise(r, "IOError", ""), new |-> <<>>]
    ELSE IF AbstractMethods(cls) # {}
    THEN [res |-> Raise(r, "TypeError", ""), new |-> <<>>]
    ELSE [res |-> [r EXCEPT !.vtype = "Stage", !.ref = "s"],
          new |-> <<NewStage(cls, file.params)>>]

\* ------------------------------------------------------------ calls
Finish(o, out) ==
    /\ result' = [out.res EXCEPT !.retry = Refused(out.res) /\ Refused(result) /\ result.self = o]
    /\ objs' = [objs EXCEPT ![o] = out.self]

CallSetModelData(o, inputs) ==
    LET cls == objs[o].cls
        r == [Outcome("set_model_data", o, cls) EXCEPT !.nin = Len(inputs)]
        impl == Resolve(cls, "set_model_data")
    IN  /\ Finish(o, CASE impl = "user" -> User_set_model_data(r, objs[o], inputs)
                       [] impl = "Model" -> Model_set_model_data(r, objs[o], inputs)
                       [] OTHER -> [res |-> NoAttribute(r), self |-> objs[o]])
        /\ UNCHANGED store

CallGetModelData(o) ==
    LET cls == objs[o].cls
        r == Outcome("get_model_data", o, cls)
        impl == Resolve(cls, "get_model_data")
    IN  /\ Finish(o, CASE impl = "user" -> User_get_model_data(r, objs[o])
                       [] impl = "Model" -> Model_get_model_data(r, objs[o])
                       [] OTHER -> [res |-> NoAttribute(r), self |-> objs[o]])
        /\ UNCHANGED store

CallFit(o, inputs) ==
    LET cls == objs[o].cls
        r == [Outcome("fit", o, cls) EXCEPT !.nin = Len(inputs)]
        impl == Resolve(cls, "fit")
    IN  /\ Finish(o, CASE impl = "user" -> User_fit(r, objs[o], inputs)
                       [] impl = "Estimator" -> Estimator_fit(r, objs[o], inputs)
                       [] OTHER -> [res |-> NoAttribute(r), self |-> objs[o]])
        /\ UNCHANGED store

CallTransform(o, inputs, out) ==
    LET cls == objs[o].cls
        r == [Outcome("transform", o, cls) EXCEPT !.nin = Len(inputs)]
        impl == Resolve(cls, "transform")
    IN  /\ Finish(o, CASE impl = "user" -> User_transform(r, objs[o], inputs, out)
                       [] impl = "AlgoOperator" -> AbstractBody(r, objs[o])
                       [] OTHER -> [res |-> NoAttribute(r), self |-> objs[o]])
        /\ UNCHANGED store

CallSave(o, path) ==
    LET cls == objs[o].cls
        r == [Outcome("save", o, cls) EXCEPT !.path = path]
        impl == Resolve(cls, "save")
    IN  /\ IF impl = "user"
           THEN /\ result' = User_save(r, objs[o]).res
                /\ store' = [store EXCEPT ![path] = User_save(r, objs[o]).file]
           ELSE /\ result' = AbstractBody(r, objs[o]).res
                /\ UNCHANGED store
        /\ UNCHANGED objs

\* cls.load(t_env, path): a classmethod, callable on any class
CallLoad(cls, path) ==
    LET r == [Outcome("load", 0, cls) EXCEPT !.path = path]
        impl == Resolve(cls, "load")
        out == User_load(r, cls, store[path])
    IN  /\ IF impl = "user"
           THEN /\ result' = out.res
                /\ objs' = IF out.new = <<>> THEN objs ELSE out.new
           ELSE /\ result' = AbstractBody(r, <<>>).res
                /\ UNCHANGED objs
        /\ UNCHANGED store

\* parameter setting through WithParams
SetParam(o, v) ==
    /\ objs' = [objs EXCEPT ![o].params = v]
    /\ result' = Outcome("set_param", o, objs[o].cls)
    /\ UNCHANGED store

Next ==
    \/ \E cls \in UserClasses : Construct(cls)
    \/ \E o \in 1..Len(objs), inputs \in TableLists : CallSetModelData(o, inputs)
    \/ \E o \in 1..Len(objs) : CallGetModelData(o)
    \/ \E o \in 1..Len(objs), inputs \in TableLists : CallFit(o, inputs)
    \/ \E o \in 1..Len(objs), inputs, out \in TableLists : CallTransform(o, inputs, out)
    \/ \E o \in 1..Len(objs), path \in Paths : CallSave(o, path)
    \/ \E cls \in ConcreteClasses, path \in Paths : CallLoad(cls, path)
    \/ \E o \in 1..Len(objs), v \in Params : SetParam(o, v)

Spec == Init /\ [][Next]_vars

\* ------------------------------------------------------------ properties
IsCallOn(r, op, c) == r.op = op /\ IsSubclass(r.cls, c)

Inherits(r, op) == op \notin r.cls.defs

\* C1: on a Model whose class does not define set_model_data, a call of
\* set_model_data, with any number of input tables, ends in the exception
\* "This operation is not supported." and returns nothing.
C1_SetModelDataUnsupported ==
    (IsCallOn(result, "set_model_data", "Model") /\ Inherits(result, "set_model_data"))
        => (result.kind = "raise" /\ result.vtype = "Exception" /\ result.msg = NotSupported)

C1_Witness ==
    /\ IsCallOn(result, "set_model_data", "Model") /\ Inherits(result, "set_model_data")
    /\ result.nin = MaxLen
    /\ Refused(result)

\* C2: on a Model whose class does not define get_model_data, a call of
\* get_model_data ends in the exception "This operation is not supported." and
\* returns no list, in every reachable state.
C2_GetModelDataUnsupported ==
    (IsCallOn(result, "get_model_data", "Model") /\ Inherits(result, "get_model_data"))
        => (result.kind = "raise" /\ result.vtype = "Exception" /\ result.msg = NotSupported
            /\ result.tables = <<>>)

C2_Witness ==
    /\ IsCallOn(result, "get_model_data", "Model") /\ Inherits(result, "get_model_data")
    /\ "set_model_data" \in result.cls.defs
    /\ objs[1].data # <<>>
    /\ Refused(result)

\* C3: every call of fit on a constructed Estimator returns a Model instance,
\* also when the Estimator's class does not define fit.
C3_FitReturnsModel ==
    IsCallOn(result, "fit", "Estimator") => (result.kind = "return" /\ result.vtype = "Model")

\* C4: every live Model instance is an instance of Transformer, AlgoOperator and
\* Stage, and save, load and transform each resolve to an implementation on it.
C4_ModelIsTransformer ==
    \A i \in 1..Len(objs) :
        IsSubclass(objs[i].cls, "Model") =>
            /\ \A c \in {"Transformer", "AlgoOperator", "Stage"} : IsSubclass(objs[i].cls, c)
            /\ \A m \in {"save", "load", "transform"} : Resolve(objs[i].cls, m) # "none"

C4_Witness ==
    /\ IsCallOn(result, "transform", "Model")
    /\ result.kind = "return" /\ result.vtype = "List"
    /\ Len(objs) = 1 /\ IsSubclass(objs[1].cls, "Model")

\* C5: in every step, from whatever state the earlier calls left, a call of
\* set_model_data or get_model_data on a Model whose class does not define it
\* ends in "This operation is not supported."; a retry fails like the first call.
C5_UnsupportedIsPermanent ==
    [][\A op \in {"set_model_data", "get_model_data"} :
          (IsCallOn(result', op, "Model") /\ Inherits(result', op)) => Refused(result')]_vars

C5_Witness ==
    /\ result.op \in {"set_model_data", "get_model_data"}
    /\ Refused(result)
    /\ result.retry
    /\ store["p1"].saved

\* C6: on an Estimator whose class defines fit as "return M", every call of fit
\* returns M, whatever the inputs.
C6_FitReturnsFixedM ==
    (IsCallOn(result, "fit", "Estimator") /\ ~Inherits(result, "fit"))
        => (result.kind = "return" /\ result.vtype = "Model" /\ result.ref = FixedM)

C6_Witness ==
    /\ IsCallOn(result, "fit", "Estimator") /\ ~Inherits(result, "fit")
    /\ result.nin = 0
    /\ result.ref = FixedM

C8_TransformCardinalityFree ==
    \A i \in 1..Len(objs) :
        IsSubclass(objs[i].cls, "AlgoOperator") =>
            \A inputs \in TableLists, out \in TableLists :
                ENABLED (/\ CallTransform(i, inputs, out)
                         /\ result'.kind = "return" /\ result'.vtype = "List"
                         /\ result'.nin = Len(inputs) /\ result'.tables = out)

C8_Witness ==
    /\ IsCallOn(result, "transform", "AlgoOperator")
    /\ result.kind = "return" /\ result.vtype = "List"
    /\ result.nin = MaxLen /\ result.tables = <<>>

\* C9: a call that runs the body api.py gives to set_model_data, get_model_data
\* or fit leaves the stage (class, parameters, model data) and the store as they
\* were, also when it raises.
C9_DefaultsAreStateless ==
    [][(result'.op \in {"set_model_data", "get_model_data", "fit"}
           /\ Resolve(result'.cls, result'.op) \in FrameworkClasses)
          => (objs' = objs /\ store' = store)]_vars

C9_Witness ==
    /\ Refused(result) /\ result.op = "set_model_data" /\ result.nin > 0
    /\ Len(objs) = 1 /\ objs[1].params # 0 /\ objs[1].data = <<>>

\* C10: constructing a class succeeds exactly when the class defines save and
\* load and, below AlgoOperator, transform; otherwise it raises TypeError.
\* fit, set_model_data and get_model_data are not needed.
Required(b) ==
    {"save", "load"} \cup
        (IF b \in {"AlgoOperator", "Transformer", "Model"} THEN {"transform"} ELSE {})

C10_ConstructibleIffImplemented ==
    result.op = "construct" =>
        /\ (result.kind = "return") <=> (Required(result.cls.base) \subseteq result.cls.defs)
        /\ result.kind = "raise" => result.vtype = "TypeError"
        /\ result.kind = "return" => (Len(objs) = 1 /\ objs[1].cls = result.cls)

C10_Witness ==
    /\ result.op = "construct" /\ result.kind = "return"
    /\ result.cls = [base |-> "Estimator", defs |-> {"save", "load"}]
====
